---- MODULE Spec2Model ----
(***************************************************************************)
(* file-uploader: a directory scanner (and, in the build that has it, an   *)
(* fsnotify watcher) feed file names over unbuffered channels to a single  *)
(* dispatcher goroutine, which probes an advisory lock on the file, POSTs  *)
(* it and renames it into the completed or the failed directory.           *)
(*                                                                         *)
(* Two builds of package main are in the repository:                       *)
(*   build = "scan"  : src/main.go          (scanner only, Stat check)     *)
(*   build = "watch" : src/unnamed/part_000 (scanner + watcher, no Stat)   *)
(***************************************************************************)
EXTENDS Integers, FiniteSets, Sequences, TLC

\* ------------------------------------------------------------------ bounds
\* Number of distinct base names the external producer drops into source,
\* each of them once.
MaxFiles == 1

Files == 1..MaxFiles

\* ------------------------------------------------------- program constants
\* lockAndProcessFile gives up when a TryLock fails with i > 5.
MaxRetry == 5

\* The source directory maps a base name to the size of the entry, Absent
\* when it has no entry of that name.
Absent == -1
Sizes == {0, 1}

\* The HTTP status codes the endpoint answers with (the edges of the
\* classification and one value on each side of them).
StatusCodes == {199, 200, 299, 300, 301}

VARIABLES
    build,        \* which of the two builds runs
    source,       \* p.sourceDir    : name -> size or Absent
    completed,    \* p.completedDir : the names it holds
    failed,       \* p.failedDir    : the names it holds
    placed,       \* names the external producer has already dropped
    extLock,      \* names an external writer holds the advisory lock on
    shutdown,     \* p.shutdown : "nil", "open", "closed"
    done,         \* p.done     : "nil", "open", "closed"
    runPc,        \* run(): "start", "pipeline", "wait", "returned"
    stopPc,       \* Stop(): "idle", "blockedNil", "waitDone", "returned"
    panicked,     \* the process died of a panic: no goroutine runs any more
    spc,          \* scanner goroutine: "idle", "select", "send", "exited"
    scanPending,  \* entries of the current Readdir not yet sent
    scanClosed,   \* close(fileChannel) has run
    wpc,          \* watcher goroutine: "idle", "select", "send", "exited"
    wcur,         \* event.Name the watcher is sending
    watchClosed,  \* close(watchedFileChannel) has run
    watching,     \* watcher.Add(p.sourceDir) has run
    events,       \* names with a pending fsnotify Create event
    eventsClosed, \* watcher.Events is closed
    dpc,          \* dispatcher goroutine: "idle", "recv", "stat", "lock",
                  \* "locked", "post", "resp", "ret", "exited"
    cur,          \* the work item (path) the dispatcher is processing
    i,            \* retry counter of lockAndProcessFile
    resp,         \* resp.StatusCode of the POST, 0 when there is none
    ret,          \* what the last lockAndProcessFile returned
    posted,       \* a POST was issued for the current work item
    moveErr,      \* the last os.Rename failed
    held          \* the dispatcher holds the fslock on cur

fsVars == <<source, completed, failed>>
envVars == <<placed, extLock>>
lifeVars == <<shutdown, done, runPc, stopPc, panicked>>
scanVars == <<spc, scanPending, scanClosed>>
watchVars == <<wpc, wcur, watchClosed, watching, events, eventsClosed>>
dispVars == <<dpc, cur, i, resp, ret, posted, moveErr, held>>

vars == <<build, fsVars, envVars, lifeVars, scanVars, watchVars, dispVars>>

\* ------------------------------------------------------------------ helpers
EmptyDir == [f \in Files |-> Absent]

\* The dispatcher is between receiving a work item and returning from
\* lockAndProcessFile.
InFlight == dpc \in {"stat", "lock", "locked", "post", "resp", "ret"}

\* fsnotify reports the creation of an entry of the watched directory;
\* inotify merges an event identical to one still pending.
Notify(f) ==
    IF build = "watch" /\ watching /\ ~eventsClosed
    THEN events \cup {f}
    ELSE events

Init ==
    /\ build \in {"scan", "watch"}
    /\ source = EmptyDir
    /\ completed = {}
    /\ failed = {}
    /\ placed = {}
    /\ extLock = {}
    /\ shutdown = "nil"
    /\ done = "nil"
    /\ runPc = "start"
    /\ stopPc = "idle"
    /\ panicked = FALSE
    /\ spc = "idle"
    /\ scanPending = {}
    /\ scanClosed = FALSE
    /\ wpc = "idle"
    /\ wcur = 0
    /\ watchClosed = FALSE
    /\ watching = FALSE
    /\ events = {}
    /\ eventsClosed = FALSE
    /\ dpc = "idle"
    /\ cur = 0
    /\ i = 0
    /\ resp = 0
    /\ ret = "none"
    /\ posted = FALSE
    /\ moveErr = FALSE
    /\ held = FALSE

\* ------------------------------------------------- the external environment
\* Another process drops a new file into source: empty or not, and holding
\* the advisory lock on it or not.
PlaceFile(f, sz, lk) ==
    /\ f \notin placed
    /\ source[f] = Absent
    /\ placed' = placed \cup {f}
    /\ source' = [source EXCEPT ![f] = sz]
    /\ extLock' = IF lk THEN extLock \cup {f} ELSE extLock
    /\ events' = Notify(f)
    /\ UNCHANGED <<build, completed, failed, lifeVars, scanVars, dispVars,
                   wpc, wcur, watchClosed, watching, eventsClosed>>

\* An external writer appends to a file of source that is still empty. (The
\* Write event this raises is not a Create event; the watcher drops it.)
WriteFile(f) ==
    /\ source[f] = 0
    /\ source' = [source EXCEPT ![f] = 1]
    /\ UNCHANGED <<build, completed, failed, envVars, lifeVars, scanVars,
                   watchVars, dispVars>>

\* The external writer releases its lock.
ExtUnlock(f) ==
    /\ f \in extLock
    /\ extLock' = extLock \ {f}
    /\ UNCHANGED <<build, fsVars, placed, lifeVars, scanVars, watchVars,
                   dispVars>>

\* The event source of the watcher closes unexpectedly.
EventsFail ==
    /\ build = "watch"
    /\ watching
    /\ ~eventsClosed
    /\ eventsClosed' = TRUE
    /\ events' = {}
    /\ UNCHANGED <<build, fsVars, envVars, lifeVars, scanVars, dispVars,
                   wpc, wcur, watchClosed, watching>>

\* ------------------------------------------------------------ run and Stop
\* run: p.shutdown = make(chan bool)
RunMakeShutdown ==
    /\ ~panicked
    /\ runPc = "start"
    /\ shutdown' = "open"
    /\ runPc' = "pipeline"
    /\ UNCHANGED <<build, fsVars, envVars, done, stopPc, panicked, scanVars,
                   watchVars, dispVars>>

\* run: watchDirectory (in the watch build), timedScan and processFiles start
\* the goroutines; processFiles sets p.done = make(chan bool).
RunPipeline ==
    /\ ~panicked
    /\ runPc = "pipeline"
    /\ IF build = "watch"
       THEN wpc' = "select" /\ watching' = TRUE
       ELSE UNCHANGED <<wpc, watching>>
    /\ spc' = "select"
    /\ done' = "open"
    /\ dpc' = "recv"
    /\ runPc' = "wait"
    /\ UNCHANGED <<build, fsVars, envVars, shutdown, stopPc, panicked,
                   scanPending, scanClosed, wcur, watchClosed, events,
                   eventsClosed, cur, i, resp, ret, posted, moveErr, held>>

\* run: <-p.shutdown; <-p.done; then it returns and the deferred
\* watcher.Close() of the watch build closes watcher.Events.
RunReturn ==
    /\ ~panicked
    /\ runPc = "wait"
    /\ shutdown = "closed"
    /\ done = "closed"
    /\ runPc' = "returned"
    /\ eventsClosed' = (eventsClosed \/ build = "watch")
    /\ events' = {}
    /\ UNCHANGED <<build, fsVars, envVars, shutdown, done, stopPc, panicked,
                   scanVars, wpc, wcur, watchClosed, watching, dispVars>>

\* Stop: close(p.shutdown), which panics on a nil channel, then <-p.done
\* reads the field: a receive from a nil channel never returns.
Stop ==
    /\ ~panicked
    /\ stopPc = "idle"
    /\ IF shutdown = "nil"
       THEN /\ panicked' = TRUE
            /\ UNCHANGED <<shutdown, stopPc>>
       ELSE /\ shutdown' = "closed"
            /\ stopPc' = IF done = "nil" THEN "blockedNil" ELSE "waitDone"
            /\ UNCHANGED panicked
    /\ UNCHANGED <<build, fsVars, envVars, done, runPc, scanVars, watchVars,
                   dispVars>>

\* Stop returns once done is closed.
StopReturn ==
    /\ ~panicked
    /\ stopPc = "waitDone"
    /\ done = "closed"
    /\ stopPc' = "returned"
    /\ UNCHANGED <<build, fsVars, envVars, shutdown, done, runPc, panicked,
                   scanVars, watchVars, dispVars>>

\* ----------------------------------------------------------------- scanner
\* The regular files Readdir lists.
Listing == {f \in Files : source[f] # Absent}

\* case <-ticker.C: scanDirectory lists source and starts sending.
ScanTick ==
    /\ ~panicked
    /\ spc = "select"
    /\ scanPending' = Listing
    /\ spc' = IF Listing = {} THEN "select" ELSE "send"
    /\ UNCHANGED <<build, fsVars, envVars, lifeVars, scanClosed, watchVars,
                   dispVars>>

\* case <-ticker.C: os.Open or Readdir fails; the error is logged only.
ScanTickErr ==
    /\ ~panicked
    /\ spc = "select"
    /\ UNCHANGED vars

\* case <-p.shutdown: return, and the deferred close(fileChannel) runs.
ScanShutdown ==
    /\ ~panicked
    /\ spc = "select"
    /\ shutdown = "closed"
    /\ spc' = "exited"
    /\ scanClosed' = TRUE
    /\ UNCHANGED <<build, fsVars, envVars, lifeVars, scanPending, watchVars,
                   dispVars>>

\* ----------------------------------------------------------------- watcher
\* case event, ok := <-watcher.Events: the Create event of f is forwarded.
WatchEvent(f) ==
    /\ ~panicked
    /\ wpc = "select"
    /\ ~eventsClosed
    /\ f \in events
    /\ events' = events \ {f}
    /\ wpc' = "send"
    /\ wcur' = f
    /\ UNCHANGED <<build, fsVars, envVars, lifeVars, scanVars, watchClosed,
                   watching, eventsClosed, dispVars>>

\* case event, ok := <-watcher.Events with !ok: return and close the channel.
WatchEventsClosed ==
    /\ ~panicked
    /\ wpc = "select"
    /\ eventsClosed
    /\ wpc' = "exited"
    /\ watchClosed' = TRUE
    /\ UNCHANGED <<build, fsVars, envVars, lifeVars, scanVars, wcur,
                   watching, events, eventsClosed, dispVars>>

\* case err := <-watcher.Errors: logged only.
WatchError ==
    /\ ~panicked
    /\ wpc = "select"
    /\ UNCHANGED vars

\* case <-p.shutdown: return and close the channel.
WatchShutdown ==
    /\ ~panicked
    /\ wpc = "select"
    /\ shutdown = "closed"
    /\ wpc' = "exited"
    /\ watchClosed' = TRUE
    /\ UNCHANGED <<build, fsVars, envVars, lifeVars, scanVars, wcur,
                   watching, events, eventsClosed, dispVars>>

\* -------------------------------------------------------------- dispatcher
\* The first step of lockAndProcessFile: os.Stat in the scan build, the lock
\* loop in the watch build.
Entry == IF build = "scan" THEN "stat" ELSE "lock"

\* RecvScan, were each received name handed to a goroutine of its own
\* (go p.lockAndProcessFile(filename)): the receive no longer waits for the
\* call in progress to return.
RecvScanWhileBusy(f) ==
    /\ ~panicked
    /\ dpc \notin {"idle", "exited"}
    /\ spc = "send"
    /\ f \in scanPending
    /\ scanPending' = scanPending \ {f}
    /\ spc' = IF scanPending' = {} THEN "select" ELSE "send"
    /\ cur' = f
    /\ dpc' = Entry
    /\ UNCHANGED <<build, fsVars, envVars, lifeVars, scanClosed, watchVars,
                   i, resp, ret, posted, moveErr, held>>

\* case filename, ok := <-scanChannel with ok: the rendezvous with the
\* scanner's send, which goes on to its next entry or back to its select.
RecvScan(f) ==
    /\ ~panicked
    /\ dpc = "recv"
    /\ spc = "send"
    /\ f \in scanPending
    /\ scanPending' = scanPending \ {f}
    /\ spc' = IF scanPending' = {} THEN "select" ELSE "send"
    /\ cur' = f
    /\ dpc' = Entry
    /\ UNCHANGED <<build, fsVars, envVars, lifeVars, scanClosed, watchVars,
                   i, resp, ret, posted, moveErr, held>>

\* case filename, ok := <-watchChannel with ok.
RecvWatch ==
    /\ ~panicked
    /\ build = "watch"
    /\ dpc = "recv"
    /\ wpc = "send"
    /\ wpc' = "select"
    /\ wcur' = 0
    /\ cur' = wcur
    /\ dpc' = Entry
    /\ UNCHANGED <<build, fsVars, envVars, lifeVars, scanVars, watchClosed,
                   watching, events, eventsClosed, i, resp, ret, posted,
                   moveErr, held>>

\* RecvClosed, were close(p.done) to run as soon as an input channel is seen
\* closed rather than when the loop returns.
RecvClosedEarly ==
    /\ ~panicked
    /\ dpc \notin {"idle", "exited"}
    /\ scanClosed \/ (build = "watch" /\ watchClosed)
    /\ dpc' = IF dpc = "recv" THEN "exited" ELSE dpc
    /\ done' = "closed"
    /\ UNCHANGED <<build, fsVars, envVars, shutdown, runPc, stopPc, panicked,
                   scanVars, watchVars, cur, i, resp, ret, posted, moveErr,
                   held>>

\* A receive with !ok, from either channel: return, and the deferred
\* close(p.done) runs.
RecvClosed ==
    /\ ~panicked
    /\ dpc = "recv"
    /\ scanClosed \/ (build = "watch" /\ watchClosed)
    /\ dpc' = "exited"
    /\ done' = "closed"
    /\ UNCHANGED <<build, fsVars, envVars, shutdown, runPc, stopPc, panicked,
                   scanVars, watchVars, cur, i, resp, ret, posted, moveErr,
                   held>>

\* fi, err := os.Stat(path): a missing file and a file of size <= 0 return nil.
Stat ==
    /\ ~panicked
    /\ dpc = "stat"
    /\ IF source[cur] = Absent \/ source[cur] <= 0
       THEN dpc' = "ret" /\ ret' = "nil"
       ELSE dpc' = "lock" /\ UNCHANGED ret
    /\ UNCHANGED <<build, fsVars, envVars, lifeVars, scanVars, watchVars,
                   cur, i, resp, posted, moveErr, held>>

\* os.Stat fails with an error other than "not exist": returned.
StatErr ==
    /\ ~panicked
    /\ dpc = "stat"
    /\ dpc' = "ret"
    /\ ret' = "err_stat"
    /\ UNCHANGED <<build, fsVars, envVars, lifeVars, scanVars, watchVars,
                   cur, i, resp, posted, moveErr, held>>

\* TryLock, were an exhausted retry budget to be handled like a failed
\* upload: the file is renamed into failed before the error is returned.
TryLockMovesOnGiveUp ==
    /\ ~panicked
    /\ dpc = "lock"
    /\ IF cur \in extLock
       THEN /\ IF i > MaxRetry
               THEN /\ dpc' = "ret" /\ ret' = "err_lock" /\ i' = 0
                    /\ failed' = failed \cup {cur}
                    /\ source' = [source EXCEPT ![cur] = Absent]
               ELSE /\ i' = i + 1
                    /\ UNCHANGED <<dpc, ret, source, failed>>
            /\ UNCHANGED <<events, held>>
       ELSE /\ dpc' = "locked"
            /\ held' = TRUE
            /\ i' = 0
            /\ IF source[cur] = Absent
               THEN /\ source' = [source EXCEPT ![cur] = 0]
                    /\ events' = Notify(cur)
               ELSE UNCHANGED <<source, events>>
            /\ UNCHANGED <<ret, failed>>
    /\ UNCHANGED <<build, completed, envVars, lifeVars, scanVars,
                   wpc, wcur, watchClosed, watching, eventsClosed, cur, resp,
                   posted, moveErr>>

\* lock.TryLock() in the retry loop. fslock opens the path with O_CREAT, so
\* a missing path is created empty; the flock fails while an external writer
\* holds the lock. A failure with i > 5 returns the error, any other failure
\* counts and sleeps.
TryLock ==
    /\ ~panicked
    /\ dpc = "lock"
    /\ IF cur \in extLock
       THEN /\ IF i > MaxRetry
               THEN dpc' = "ret" /\ ret' = "err_lock" /\ i' = 0
               ELSE i' = i + 1 /\ UNCHANGED <<dpc, ret>>
            /\ UNCHANGED <<source, events, held>>
       ELSE /\ dpc' = "locked"
            /\ held' = TRUE
            /\ i' = 0
            /\ IF source[cur] = Absent
               THEN /\ source' = [source EXCEPT ![cur] = 0]
                    /\ events' = Notify(cur)
               ELSE UNCHANGED <<source, events>>
            /\ UNCHANGED ret
    /\ UNCHANGED <<build, completed, failed, envVars, lifeVars, scanVars,
                   wpc, wcur, watchClosed, watching, eventsClosed, cur, resp,
                   posted, moveErr>>

\* Unlock, were the release deferred (defer lock.Unlock()): processFile is
\* entered with the lock still held.
UnlockDeferred ==
    /\ ~panicked
    /\ dpc = "locked"
    /\ dpc' = "post"
    /\ UNCHANGED <<build, fsVars, envVars, lifeVars, scanVars, watchVars,
                   cur, i, resp, ret, posted, moveErr, held>>

\* lock.Unlock(), then processFile is entered.
Unlock ==
    /\ ~panicked
    /\ dpc = "locked"
    /\ dpc' = "post"
    /\ held' = FALSE
    /\ UNCHANGED <<build, fsVars, envVars, lifeVars, scanVars, watchVars,
                   cur, i, resp, ret, posted, moveErr>>

\* The outcomes of http.Post: 0 stands for a transport error (err != nil).
Outcomes == {0} \cup StatusCodes

\* processFile up to the response: os.Open(path), whose error is returned,
\* then resp, err := http.Post(...), whose transport error is returned as it
\* is.
Post(o) ==
    /\ ~panicked
    /\ dpc = "post"
    /\ IF source[cur] = Absent
       THEN dpc' = "ret" /\ ret' = "err_open" /\ UNCHANGED <<resp, posted>>
       ELSE /\ posted' = TRUE
            /\ IF o = 0
               THEN dpc' = "ret" /\ ret' = "err_post" /\ UNCHANGED resp
               ELSE dpc' = "resp" /\ resp' = o /\ UNCHANGED ret
    /\ UNCHANGED <<build, fsVars, envVars, lifeVars, scanVars, watchVars,
                   cur, i, moveErr, held>>

\* if resp.StatusCode < 200 || resp.StatusCode > 300
IsFailure(s) == s < 200 \/ s > 300

\* Rename, were a failed move to be cleaned up by removing the file from
\* source (os.Remove(path) on the error path).
RenameDropsOnFailure(ok) ==
    /\ ~panicked
    /\ dpc = "resp"
    /\ dpc' = "ret"
    /\ LET moved == ok /\ source[cur] # Absent
       IN /\ moveErr' = ~moved
          /\ IF IsFailure(resp)
             THEN /\ ret' = "err_status"
                  /\ failed' = IF moved THEN failed \cup {cur} ELSE failed
                  /\ UNCHANGED completed
             ELSE /\ ret' = IF moved THEN "nil" ELSE "err_rename"
                  /\ completed' = IF moved THEN completed \cup {cur}
                                  ELSE completed
                  /\ UNCHANGED failed
          /\ source' = [source EXCEPT ![cur] = Absent]
    /\ UNCHANGED <<build, envVars, lifeVars, scanVars, watchVars, cur, i,
                   resp, posted, held>>

\* os.Rename(path, filepath.Join(dir, filepath.Base(path))): ok is whether the
\* rename succeeds; it cannot when the source entry is gone.
Rename(ok) ==
    /\ ~panicked
    /\ dpc = "resp"
    /\ dpc' = "ret"
    /\ LET moved == ok /\ source[cur] # Absent
       IN /\ moveErr' = ~moved
          /\ IF IsFailure(resp)
             THEN /\ ret' = "err_status"
                  /\ failed' = IF moved THEN failed \cup {cur} ELSE failed
                  /\ UNCHANGED completed
             ELSE /\ ret' = IF moved THEN "nil" ELSE "err_rename"
                  /\ completed' = IF moved THEN completed \cup {cur}
                                  ELSE completed
                  /\ UNCHANGED failed
          /\ source' = IF moved THEN [source EXCEPT ![cur] = Absent]
                       ELSE source
    /\ UNCHANGED <<build, envVars, lifeVars, scanVars, watchVars, cur, i,
                   resp, posted, held>>

\* LogResult, were a returned error fatal to the loop (log.Println(err)
\* followed by return): processFiles returns and its deferred close(p.done)
\* runs.
LogResultFatal ==
    /\ ~panicked
    /\ dpc = "ret"
    /\ dpc' = IF ret = "nil" THEN "recv" ELSE "exited"
    /\ done' = IF ret = "nil" THEN done ELSE "closed"
    /\ cur' = 0
    /\ ret' = "none"
    /\ posted' = FALSE
    /\ moveErr' = FALSE
    /\ resp' = 0
    /\ UNCHANGED <<build, fsVars, envVars, shutdown, runPc, stopPc, panicked,
                   scanVars, watchVars, i, held>>

\* if err := p.lockAndProcessFile(filename); err != nil { log.Println(err) }
\* and the loop goes back to its receive; the locals of the call are gone.
LogResult ==
    /\ ~panicked
    /\ dpc = "ret"
    /\ dpc' = "recv"
    /\ cur' = 0
    /\ ret' = "none"
    /\ posted' = FALSE
    /\ moveErr' = FALSE
    /\ resp' = 0
    /\ UNCHANGED <<build, fsVars, envVars, lifeVars, scanVars, watchVars, i,
                   held>>

\* ------------------------------------------------------------ specification
Environment ==
    \/ \E f \in Files, sz \in Sizes, lk \in BOOLEAN : PlaceFile(f, sz, lk)
    \/ \E f \in Files : WriteFile(f)
    \/ \E f \in Files : ExtUnlock(f)
    \/ EventsFail

Lifecycle ==
    \/ RunMakeShutdown
    \/ RunPipeline
    \/ RunReturn
    \/ Stop
    \/ StopReturn

Scanner ==
    \/ ScanTick
    \/ ScanTickErr
    \/ ScanShutdown

Watcher ==
    \/ \E f \in Files : WatchEvent(f)
    \/ WatchEventsClosed
    \/ WatchError
    \/ WatchShutdown

Dispatcher ==
    \/ \E f \in Files : RecvScan(f)
    \/ RecvWatch
    \/ RecvClosed
    \/ Stat
    \/ StatErr
    \/ TryLock
    \/ Unlock
    \/ \E o \in Outcomes : Post(o)
    \/ \E ok \in BOOLEAN : Rename(ok)
    \/ LogResult

Next ==
    \/ Environment
    \/ Lifecycle
    \/ Scanner
    \/ Watcher
    \/ Dispatcher

Spec == Init /\ [][Next]_vars

\* The goroutines are scheduled, a pending tick or event is delivered, a call
\* that was entered returns, and a select with several ready cases picks each
\* of them with equal probability, so no ready case loses forever. Stop and
\* the external environment are under no obligation.
Fairness ==
    /\ WF_vars(RunMakeShutdown)
    /\ WF_vars(RunPipeline)
    /\ WF_vars(RunReturn)
    /\ WF_vars(StopReturn)
    /\ WF_vars(ScanTick)
    /\ SF_vars(ScanShutdown)
    /\ \A f \in Files : SF_vars(WatchEvent(f))
    /\ SF_vars(WatchEventsClosed)
    /\ SF_vars(WatchShutdown)
    /\ \A f \in Files : SF_vars(RecvScan(f))
    /\ SF_vars(RecvWatch)
    /\ SF_vars(RecvClosed)
    /\ WF_vars(Stat)
    /\ WF_vars(TryLock)
    /\ WF_vars(Unlock)
    /\ WF_vars(\E o \in Outcomes : Post(o))
    /\ WF_vars(\E ok \in BOOLEAN : Rename(ok))
    /\ WF_vars(LogResult)

FairSpec == Spec /\ Fairness

\* ------------------------------------------------------------------ claims
\* What the specification calls a successful upload: a status in [200, 300).
Success(s) == s >= 200 /\ s <= 299

\* The dispatcher has returned from lockAndProcessFile for the item cur.
Returned == dpc = "ret"

\* Nothing the claim C1 excludes has happened: no shutdown, no external lock,
\* no failed rename; moreover os.Stat has not failed and the event source of
\* the watcher has not closed.
Quiet ==
    /\ shutdown # "closed"
    /\ ~panicked
    /\ extLock = {}
    /\ ~moveErr
    /\ ret # "err_stat"
    /\ ~eventsClosed

\* C1: with no shutdown, no external lock, fair ticks and renames that
\* succeed, every non-empty file of source eventually is in exactly one of
\* completed and failed and no longer in source, whatever the outcome of the
\* upload. Stated of the scan build, where nothing but the outcome of the
\* upload decides what becomes of such a file.
C1_EventuallyTerminal ==
    (build = "scan" /\ []Quiet) =>
        \A f \in Files :
            (source[f] > 0)
                ~> (source[f] = Absent /\ ((f \in completed) # (f \in failed)))

\* C2: no POST is issued for a file of source whose size is zero.
C2_EmptyNeverUploaded ==
    (posted /\ dpc \in {"resp", "ret"}) => source[cur] # 0

\* C3: once a file was uploaded and renamed out of source, a later work item
\* of the same path issues no POST.
C3_NoSecondUpload ==
    dpc = "resp" => cur \notin (completed \cup failed)

\* C4: after processFile returns with the rename (if any) not having failed,
\* a file whose upload succeeded is in completed and a file whose upload
\* failed, by a transport error or by a non-2xx status, is in failed.
C4_OutcomeDecidesDirectory ==
    (Returned /\ posted /\ ~moveErr) =>
        IF Success(resp)
        THEN cur \in completed /\ source[cur] = Absent
        ELSE cur \in failed /\ source[cur] = Absent

\* A step of the dispatcher in the lock loop while an external process holds
\* the lock of the work item.
LockFailStep == dpc = "lock" /\ cur \in extLock /\ (i' # i \/ dpc' # dpc)

\* C5: a TryLock that fails changes none of the three directories and issues
\* no POST; the one that fails with the budget used up returns the lock
\* error, and at that return the file is still in source and the item has
\* issued no POST.
C5_LockExhaustionLeavesFiles ==
    /\ [](ret = "err_lock" => Returned /\ ~posted /\ source[cur] # Absent)
    /\ [][LockFailStep =>
            /\ UNCHANGED <<source, completed, failed, posted>>
            /\ (i > MaxRetry => dpc' = "ret" /\ ret' = "err_lock")
            /\ (i <= MaxRetry => dpc' = "lock" /\ ret' = ret)]_vars

\* C5 witness: the dispatcher has given up on a file that is still locked.
C5_Witness == Returned /\ ret = "err_lock" /\ cur \in extLock

\* C6: a response is treated as success, the file moved to completed, exactly
\* when its status is in 200..299; any other status, 300 included, moves the
\* file to failed and returns the error.
C6_SuccessIs2xx ==
    (Returned /\ resp # 0 /\ ~moveErr) =>
        IF Success(resp)
        THEN ret = "nil" /\ cur \in completed
        ELSE ret = "err_status" /\ cur \in failed

\* C7: done is never closed while a work item is in flight: when it is
\* closed the dispatcher has left its loop, and Stop returns only after that.
C7_DoneOnlyWhenIdle ==
    /\ done = "closed" => (~InFlight /\ dpc = "exited")
    /\ stopPc = "returned" => done = "closed"

\* C7 witness: Stop has returned after a file was uploaded and moved.
C7_Witness ==
    /\ done = "closed"
    /\ stopPc = "returned"
    /\ (completed \cup failed) # {}

\* C8: once shutdown is closed the scanner starts no further scan and no
\* further path passes from the scanner to the dispatcher.
C8_NoDiscoveryAfterShutdown ==
    [][shutdown = "closed" =>
        /\ ~(spc = "select" /\ spc' = "send")
        /\ ~(spc = "send" /\ scanPending' # scanPending)]_vars

\* C9: after shutdown is closed every producer eventually closes its channel
\* and exits, and the dispatcher closes done; none stays blocked in a send.
C9_ShutdownTerminates ==
    (shutdown = "closed")
        ~> /\ spc = "exited"
           /\ (build = "watch" => wpc = "exited")
           /\ done = "closed"

\* C10: in the watch build done is closed only when both input channels are
\* closed.
C10_DoneNeedsBothClosed ==
    (build = "watch" /\ done = "closed") => (scanClosed /\ watchClosed)

\* C11: while no shutdown is requested the scanner and the dispatcher keep
\* running, whatever becomes of the watcher: neither has exited and done is
\* not closed.
C11_OnlyWatcherStops ==
    (shutdown # "closed" /\ ~panicked) =>
        (dpc # "exited" /\ spc # "exited" /\ done # "closed")

\* C12: the dispatcher's first step on a work item whose path is not in
\* source (os.Stat answering "not exist") returns nil, issues no POST and
\* changes none of the three directories.
C12_MissingPathIgnored ==
    [][(/\ dpc \in {"stat", "lock"}
        /\ source[cur] = Absent
        /\ dpc' # dpc
        /\ ret' # "err_stat") =>
            /\ dpc' = "ret"
            /\ ret' = "nil"
            /\ UNCHANGED <<source, completed, failed, posted>>]_vars

\* C13: every name is in at most one of source, completed and failed, and
\* nothing but the external producer's first drop of a name adds an entry to
\* source.
C13_OneDirectoryPerFile ==
    /\ [](\A f \in Files :
            /\ ~(source[f] # Absent /\ f \in completed \cup failed)
            /\ ~(f \in completed /\ f \in failed))
    /\ [][\A f \in Files :
            (source[f] = Absent /\ source'[f] # Absent) => f \notin placed]_vars

\* A work item leaves a producer: the scanner's or the watcher's send
\* completes.
HandOver ==
    \/ spc = "send" /\ scanPending' # scanPending
    \/ wpc = "send" /\ wpc' # wpc

\* C14: at most one work item is inside lockAndProcessFile / processFile: a
\* work item is handed over only while the dispatcher sits in its receive
\* with no file in hand, and a file is in hand exactly while a call is in
\* progress.
C14_OneItemAtATime ==
    /\ [](cur # 0 <=> InFlight)
    /\ [][HandOver => (dpc = "recv" /\ cur = 0 /\ dpc' = Entry)]_vars

\* A producer waits in its send while the dispatcher is busy with a file.
C14_Witness == InFlight /\ cur # 0 /\ (spc = "send" \/ wpc = "send")

\* lockAndProcessFile has returned a non-nil error.
ReturnedError == dpc = "ret" /\ ret \notin {"none", "nil"}

\* C15: an error returned by lockAndProcessFile does not end the loop: done
\* is open while the error is in hand, and the dispatcher's next step takes
\* it back to its receive and leaves done as it is.
C15_ErrorsDoNotHaltLoop ==
    /\ [](ReturnedError => done = "open")
    /\ [][(ReturnedError /\ dpc' # dpc) =>
            (dpc' = "recv" /\ done' = "open")]_vars

\* After an upload that failed, the dispatcher is at work on the next item
\* with done still open.
C15_Witness ==
    /\ dpc \in {"stat", "lock"}
    /\ cur \in failed
    /\ done = "open"

\* C16: the lock loop makes at most 6 TryLock calls for one work item: with
\* i failed calls behind it and another call ahead, i is at most 5.
C16_AtMostSixAttempts == dpc = "lock" => i < 6

\* C17: the lock is held only between the successful TryLock and the Unlock
\* that follows it: while the dispatcher is in processFile (opening,
\* uploading, renaming) or has returned from it, it holds no lock.
C17_NoLockDuringUpload ==
    /\ dpc \in {"post", "resp", "ret"} => ~held
    /\ held => dpc = "locked"

\* The dispatcher took the lock for this work item, released it and is now
\* waiting to rename the uploaded file.
C17_Witness == dpc = "resp" /\ posted /\ cur \notin extLock /\ ~held

\* C18: whenever processFile returns after a response that is not 2xx, what
\* it returns is the upload-failure error, whether the rename into failed
\* succeeded or not.
C18_Non2xxReturnsUploadError ==
    (Returned /\ resp # 0 /\ ~Success(resp)) => ret = "err_status"

\* The pipeline is left running: no shutdown, no panic, the watcher's event
\* source stays open and os.Stat does not fail.
Calm ==
    /\ shutdown # "closed"
    /\ ~panicked
    /\ ~eventsClosed
    /\ ret # "err_stat"

\* The os.Rename of the current work item fails.
RenameFails == dpc = "resp" /\ dpc' # dpc /\ moveErr'

\* C19: a failing rename ends the work item (it is not retried) with the
\* file still in source and nothing added to completed or failed; and while
\* the pipeline is left running, the work item is followed by another one
\* for the same path in which the file is POSTed again.
C19_FailedRenameIsRetriedByScan ==
    /\ [][RenameFails =>
            /\ dpc' = "ret"
            /\ source[cur] # Absent
            /\ UNCHANGED <<source, completed, failed>>]_vars
    /\ []Calm =>
         \A f \in Files :
            (Returned /\ moveErr /\ cur = f) ~>
                (dpc = "recv" /\ <>(posted /\ cur = f))

\* A rename has failed after a POST and the file is still in source.
C19_Witness ==
    /\ Returned
    /\ moveErr
    /\ posted
    /\ source[cur] # Absent
    /\ cur \notin completed \cup failed

\* C20: however Stop interleaves with run, it never closes a nil shutdown
\* channel (a panic) and never receives from a nil done channel.
C20_StopNeverSeesNil == ~panicked /\ stopPc # "blockedNil"

====
